---- MODULE Spec2Model ----
(***************************************************************************)
(* Model of the corn-care inference API (src/backend/app.py).              *)
(*                                                                         *)
(* Scores are integers in units of 1/3000: 0.6 is 1800, 0.8 is 2400, and   *)
(* a value rounded to 3 decimals is an integer number of thousandths.  No  *)
(* multiple of 1/3000 lies halfway between two thousandths, so round(x, 3) *)
(* is a total function of the score here and never a tie.                  *)
(***************************************************************************)
EXTENDS Integers, Sequences, FiniteSets, TLC

VARIABLES
    model,            \* app.py:33-39   the classifier loaded at start, or None
    DISEASE_CLASSES,  \* app.py:25-30   index -> display name
    pc,               \* position of each handler thread inside predict_disease
    upload,           \* the multipart upload each thread is serving
    calls,            \* per request: how often the decoder / the classifier ran
    sent,             \* per thread: the response to its request, with what led to it
    got,              \* the last response a GET route sent
    probe             \* a metadata lookup and its result

vars == <<model, DISEASE_CLASSES, pc, upload, calls, sent, got, probe>>

----------------------------------------------------------------------------
(* Bounds *)

\* widest output layer a weight file is given (train_generator.num_classes)
MaxWidth == 5

\* widest output layer when two handler threads run side by side
MaxWidthConcurrent == 1

\* the handler threads of the server when requests overlap
Workers == {"t1", "t2"}

\* classifier scores, in 1/3000: just under 0.6, 0.6, just under 0.8, 0.8
ScoreGrid == {1799, 1800, 2399, 2400}

\* random.uniform(0.7, 0.98) and random.uniform(0.01, 0.3), in 1/3000
MockTop == {2100, 2940}
MockRest == {30, 900}

\* uploaded filenames, one character per element
Filenames ==
    { << >>,
      <<"p","n","g">>,
      <<"a",".">>,
      <<"a",".","b","m","p">>,
      <<"a",".","p","n","g",".","b","m","p">>,
      <<"a",".","p","n","g">>,
      <<"a",".","b","m","p",".","J","p","G">> }

\* what the uploaded bytes are: an image, not an image at all (Image.open
\* raises), or an image whose pixel data cannot be loaded (resize raises)
Bytes == {"image", "garbage", "truncated"}

NoUpload == [has_image |-> FALSE, filename |-> << >>, bytes |-> "none"]

Uploads ==
    {NoUpload} \cup
    { [has_image |-> TRUE, filename |-> f, bytes |-> b] : f \in Filenames, b \in Bytes }

None == [loaded |-> FALSE, width |-> 0]

----------------------------------------------------------------------------
(* Configuration, app.py:15-30 *)

\* app.py:17
ALLOWED_EXTENSIONS ==
    { <<"p","n","g">>, <<"j","p","g">>, <<"j","p","e","g">>, <<"g","i","f">> }

\* app.py:25-30
ClassTable ==
    (0 :> "Healthy") @@ (1 :> "Northern Corn Leaf Blight") @@
    (2 :> "Common Rust") @@ (3 :> "Gray Leaf Spot")

----------------------------------------------------------------------------
(* str.lower, str.rsplit and allowed_file, app.py:41-43 *)

Upper == ("P" :> "p") @@ ("N" :> "n") @@ ("G" :> "g") @@ ("J" :> "j") @@
         ("E" :> "e") @@ ("I" :> "i") @@ ("F" :> "f") @@ ("A" :> "a") @@
         ("B" :> "b") @@ ("M" :> "m")

lower(s) == [i \in 1..Len(s) |-> IF s[i] \in DOMAIN Upper THEN Upper[s[i]] ELSE s[i]]

HasDot(s) == \E i \in 1..Len(s) : s[i] = "."

\* filename.rsplit('.', 1)[1]: what follows the last dot
rsplit1(s) ==
    LET last == CHOOSE i \in 1..Len(s) :
                    s[i] = "." /\ \A j \in (i+1)..Len(s) : s[j] # "."
    IN  SubSeq(s, last + 1, Len(s))

\* any(filename.lower().endswith(e)): the dot is not required
allowed_file_endswith(filename) ==
    \E a \in ALLOWED_EXTENSIONS :
        /\ Len(filename) >= Len(a)
        /\ lower(SubSeq(filename, Len(filename) - Len(a) + 1, Len(filename))) = a

allowed_file(filename) ==
    HasDot(filename) /\ lower(rsplit1(filename)) \in ALLOWED_EXTENSIONS

----------------------------------------------------------------------------
(* get_severity_level, app.py:66-75.  confidence is the unrounded score. *)

SeverityStrict(confidence, disease_name) ==
    IF disease_name = "Healthy" THEN "None"
    ELSE IF confidence > 2400 THEN "High"
    ELSE IF confidence > 1800 THEN "Medium"
    ELSE "Low"

get_severity_level(confidence, disease_name) ==
    IF disease_name = "Healthy" THEN "None"
    ELSE IF confidence >= 2400 THEN "High"
    ELSE IF confidence >= 1800 THEN "Medium"
    ELSE "Low"

----------------------------------------------------------------------------
(* get_disease_description, app.py:77-85 *)

descriptions ==
    [ n \in {ClassTable[i] : i \in DOMAIN ClassTable} |->
        CASE n = "Healthy" ->
               "The leaf appears healthy with no visible signs of disease. Continue regular monitoring and preventive care to maintain plant health."
          [] n = "Northern Corn Leaf Blight" ->
               "A fungal disease caused by Exserohilum turcicum that creates elongated, grayish-green to tan lesions on corn leaves. It can significantly reduce yield if left untreated, especially in humid conditions."
          [] n = "Common Rust" ->
               "A fungal disease caused by Puccinia sorghi, characterized by small, reddish-brown pustules on both leaf surfaces. Most common in moderate temperature (60-77 F) and high humidity conditions."
          [] n = "Gray Leaf Spot" ->
               "A fungal disease caused by Cercospora zeae-maydis that creates rectangular lesions with parallel sides on corn leaves. It thrives in warm, humid conditions and can cause significant yield loss." ]

DescriptionRaising(disease_name) ==
    IF disease_name \in DOMAIN descriptions
    THEN descriptions[disease_name] ELSE "KeyError"

get_disease_description(disease_name) ==
    IF disease_name \in DOMAIN descriptions
    THEN descriptions[disease_name] ELSE "Unknown disease detected."

----------------------------------------------------------------------------
(* get_nanoparticle_recommendations, app.py:87-169 *)

recommendations ==
    [ n \in {ClassTable[i] : i \in DOMAIN ClassTable} |->
        CASE n = "Healthy" ->
            << [name |-> "Silica Nanoparticles", type |-> "Oxide-based",
             concentration |-> "100-150 ppm", effectiveness |-> "N/A (Preventive)",
             application |-> "Preventive foliar spray monthly to boost plant immunity"] >>
          [] n = "Northern Corn Leaf Blight" ->
            << [name |-> "Copper Nanoparticles", type |-> "Metal-based",
             concentration |-> "50-100 ppm", effectiveness |-> "95%",
             application |-> "Foliar spray every 7-10 days during disease development"],
               [name |-> "Silver Nanoparticles", type |-> "Metal-based",
             concentration |-> "25-50 ppm", effectiveness |-> "88%",
             application |-> "Root zone application twice weekly for systemic effect"],
               [name |-> "Chitosan-Silver Hybrid NPs", type |-> "Bio-metallic",
             concentration |-> "75-125 ppm", effectiveness |-> "92%",
             application |-> "Targeted spray on infected areas with 5-day intervals"] >>
          [] n = "Common Rust" ->
            << [name |-> "Silica Nanoparticles", type |-> "Oxide-based",
             concentration |-> "200-300 ppm", effectiveness |-> "82%",
             application |-> "Preventive foliar spray bi-weekly during rust season"],
               [name |-> "Zinc Oxide Nanoparticles", type |-> "Oxide-based",
             concentration |-> "75-150 ppm", effectiveness |-> "78%",
             application |-> "Soil amendment and foliar spray combination"],
               [name |-> "Magnesium Oxide NPs", type |-> "Oxide-based",
             concentration |-> "100-200 ppm", effectiveness |-> "85%",
             application |-> "Early morning foliar application for best absorption"] >>
          [] n = "Gray Leaf Spot" ->
            << [name |-> "Titanium Dioxide Nanoparticles", type |-> "Oxide-based",
             concentration |-> "100-200 ppm", effectiveness |-> "85%",
             application |-> "UV-activated foliar treatment during sunny periods"],
               [name |-> "Copper-Silver Hybrid NPs", type |-> "Bimetallic",
             concentration |-> "40-80 ppm", effectiveness |-> "92%",
             application |-> "Targeted spray on affected areas every 5-7 days"],
               [name |-> "Selenium Nanoparticles", type |-> "Metalloid-based",
             concentration |-> "20-40 ppm", effectiveness |-> "89%",
             application |-> "Foliar spray with surfactant for enhanced penetration"] >> ]

get_nanoparticle_recommendations(disease_name) ==
    IF disease_name \in DOMAIN recommendations
    THEN recommendations[disease_name] ELSE << >>

----------------------------------------------------------------------------
(* The classifier: model.predict (app.py:219) and mock_prediction          *)
(* (app.py:171-180).  A score vector is a function on 0..width-1.          *)

\* what a loaded model of the given output width can return for an image
model_predict(width) == [0..(width - 1) -> ScoreGrid]

MockFiveWide ==
    { v \in [0..4 -> MockTop \cup MockRest] :
        \E class_idx \in 0..4 :
            /\ v[class_idx] \in MockTop
            /\ \A i \in 0..4 : i # class_idx => v[i] \in MockRest }

mock_prediction ==
    { v \in [0..3 -> MockTop \cup MockRest] :
        \E class_idx \in 0..3 :
            /\ v[class_idx] \in MockTop
            /\ \A i \in 0..3 : i # class_idx => v[i] \in MockRest }

----------------------------------------------------------------------------
(* np.argmax and round(x, 3), app.py:225-226, 241, 246 *)

RECURSIVE ArgScan(_, _, _), ArgScanLast(_, _, _)

\* scan that keeps the first maximum
ArgScan(v, i, best) ==
    IF i \notin DOMAIN v THEN best
    ELSE ArgScan(v, i + 1, IF v[i] > v[best] THEN i ELSE best)

\* scan that keeps the last maximum
ArgScanLast(v, i, best) ==
    IF i \notin DOMAIN v THEN best
    ELSE ArgScanLast(v, i + 1, IF v[i] >= v[best] THEN i ELSE best)

argmax_last(v) == ArgScanLast(v, 1, 0)

np_argmax(v) == ArgScan(v, 1, 0)

\* round(x, 3): a score in 1/3000 to the nearest thousandth
round3(x) == (x + 1) \div 3

----------------------------------------------------------------------------
(* Responses *)

Error(status, text, detail) ==
    [status |-> status, body |-> [error |-> <<text, detail>>]]

NoCalls == [decode |-> 0, classify |-> 0]

NoScores == [raised |-> FALSE, scores |-> << >>]

NoSent ==
    [upload |-> NoUpload, out |-> NoScores, calls |-> NoCalls,
     status |-> 0, body |-> [error |-> << >>]]

NoGot == [route |-> "none", body |-> << >>]

\* app.py:224-254 with `if i in DISEASE_CLASSES` in the comprehension and a
\* fallback name: scores the table has no class for are dropped
prediction_skips_unknown(out) ==
    IF out.raised THEN Error(500, "Error during prediction: ", "predict failed")
    ELSE
      LET predictions == out.scores
          predicted_class_idx == np_argmax(predictions)
          confidence == predictions[predicted_class_idx]
          missing == {i \in DOMAIN predictions : i \notin DOMAIN DISEASE_CLASSES}
      IN
            LET disease_name == IF predicted_class_idx \in DOMAIN DISEASE_CLASSES
                                THEN DISEASE_CLASSES[predicted_class_idx] ELSE "Unknown"
            IN  [status |-> 200,
                 body |->
                   [disease |-> disease_name,
                    confidence |-> round3(confidence),
                    severity |-> get_severity_level(confidence, disease_name),
                    description |-> get_disease_description(disease_name),
                    nanoparticles |-> get_nanoparticle_recommendations(disease_name),
                    all_predictions |->
                      [n \in {DISEASE_CLASSES[i] : i \in DOMAIN predictions \ missing} |->
                         round3(predictions[CHOOSE i \in DOMAIN predictions \ missing :
                                               DISEASE_CLASSES[i] = n])]]]

\* app.py:224-254, given what the classifier did
prediction_response(out) ==
    IF out.raised THEN Error(500, "Error during prediction: ", "predict failed")
    ELSE
      LET predictions == out.scores
          predicted_class_idx == np_argmax(predictions)
          confidence == predictions[predicted_class_idx]
          missing == {i \in DOMAIN predictions : i \notin DOMAIN DISEASE_CLASSES}
      IN  IF predicted_class_idx \notin DOMAIN DISEASE_CLASSES
          THEN Error(500, "Error during prediction: ", ToString(predicted_class_idx))
          ELSE IF missing # {}
          THEN Error(500, "Error during prediction: ",
                     ToString(CHOOSE i \in missing : \A j \in missing : i <= j))
          ELSE
            LET disease_name == DISEASE_CLASSES[predicted_class_idx]
            IN  [status |-> 200,
                 body |->
                   [disease |-> disease_name,
                    confidence |-> round3(confidence),
                    severity |-> get_severity_level(confidence, disease_name),
                    description |-> get_disease_description(disease_name),
                    nanoparticles |-> get_nanoparticle_recommendations(disease_name),
                    all_predictions |->
                      [n \in {DISEASE_CLASSES[i] : i \in DOMAIN predictions} |->
                         round3(predictions[CHOOSE i \in DOMAIN predictions :
                                               DISEASE_CLASSES[i] = n])]]]

----------------------------------------------------------------------------
(* Process start, app.py:25-39: the class table is built and the weight    *)
(* file either loads (with whatever output width it was trained with) or   *)
(* fails to, which leaves model = None.                                    *)

NoProbe == [name |-> "", description |-> "", nanoparticles |-> << >>, done |-> {}]

\* the handler threads the server runs
Threads == DOMAIN pc

Startup(widths, threads) ==
    /\ model \in {None} \cup {[loaded |-> TRUE, width |-> w] : w \in widths}
    /\ DISEASE_CLASSES = ClassTable
    /\ pc = [t \in threads |-> "idle"]
    /\ upload = [t \in threads |-> NoUpload]
    /\ calls = [t \in threads |-> NoCalls]
    /\ sent = [t \in threads |-> NoSent]
    /\ got = NoGot

\* one request is served at a time
Init == Startup(1..MaxWidth, {"t1"}) /\ probe = NoProbe

\* requests overlap
ConcurrentInit == Startup(1..MaxWidthConcurrent, Workers) /\ probe = NoProbe

----------------------------------------------------------------------------
(* POST /predict, app.py:191-257, in three steps of one handler thread *)

Respond(t, u, out, c, r) ==
    /\ sent' = [sent EXCEPT ![t] = [upload |-> u, out |-> out, calls |-> c,
                                     status |-> r.status, body |-> r.body]]
    /\ pc' = [pc EXCEPT ![t] = "idle"]
    /\ upload' = [upload EXCEPT ![t] = NoUpload]
    /\ calls' = [calls EXCEPT ![t] = NoCalls]

\* app.py:196-207
Validate(t) ==
    /\ pc[t] = "idle"
    /\ \E u \in Uploads :
         IF ~u.has_image
         THEN Respond(t, u, NoScores, NoCalls,
                      Error(400, "No image file provided", ""))
         ELSE IF u.filename = << >>
         THEN Respond(t, u, NoScores, NoCalls, Error(400, "No file selected", ""))
         ELSE IF ~allowed_file(u.filename)
         THEN Respond(t, u, NoScores, NoCalls,
                      Error(400, "Invalid file type. Please upload PNG, JPG, JPEG, or GIF", ""))
         ELSE /\ pc' = [pc EXCEPT ![t] = "decode"]
              /\ upload' = [upload EXCEPT ![t] = u]
              /\ calls' = [calls EXCEPT ![t] = NoCalls]
              /\ sent' = [sent EXCEPT ![t] = NoSent]
    /\ UNCHANGED <<model, DISEASE_CLASSES, got, probe>>

\* app.py:209-214 with the failure left to the outer handler (app.py:256-257)
DecodeOuterExcept(t) ==
    /\ pc[t] = "decode"
    /\ LET c == [calls[t] EXCEPT !.decode = @ + 1]
       IN  IF upload[t].bytes = "image"
           THEN /\ pc' = [pc EXCEPT ![t] = "predict"]
                /\ calls' = [calls EXCEPT ![t] = c]
                /\ UNCHANGED <<upload, sent>>
           ELSE Respond(t, upload[t], NoScores, c,
                        Error(500, "Server error: ", upload[t].bytes))
    /\ UNCHANGED <<model, DISEASE_CLASSES, got, probe>>

\* app.py:209-214: Image.open and preprocess_image (app.py:45-64)
Decode(t) ==
    /\ pc[t] = "decode"
    /\ LET c == [calls[t] EXCEPT !.decode = @ + 1]
       IN  IF upload[t].bytes = "image"
           THEN /\ pc' = [pc EXCEPT ![t] = "predict"]
                /\ calls' = [calls EXCEPT ![t] = c]
                /\ UNCHANGED <<upload, sent>>
           ELSE Respond(t, upload[t], NoScores, c,
                        Error(400, "Error processing image: ",
                              IF upload[t].bytes = "garbage"
                              THEN "cannot identify image file"
                              ELSE "Error preprocessing image: "))
    /\ UNCHANGED <<model, DISEASE_CLASSES, got, probe>>

\* what the classifier call of app.py:218-222 can produce
Outputs ==
    IF model.loaded
    THEN {[raised |-> TRUE, scores |-> << >>]} \cup
         {[raised |-> FALSE, scores |-> v] : v \in model_predict(model.width)}
    ELSE {[raised |-> FALSE, scores |-> v] : v \in mock_prediction}

\* app.py:216-254 with a failed model.predict replaced by the mock from then on
PredictDropsModel(t) ==
    /\ pc[t] = "predict"
    /\ \E out \in Outputs :
         /\ Respond(t, upload[t], out, [calls[t] EXCEPT !.classify = @ + 1],
                    prediction_response(out))
         /\ model' = IF out.raised THEN None ELSE model
    /\ UNCHANGED <<DISEASE_CLASSES, got, probe>>

\* app.py:216-254
Predict(t) ==
    /\ pc[t] = "predict"
    /\ \E out \in Outputs :
         Respond(t, upload[t], out, [calls[t] EXCEPT !.classify = @ + 1],
                 prediction_response(out))
    /\ UNCHANGED <<model, DISEASE_CLASSES, got, probe>>

predict_disease(t) == Validate(t) \/ Decode(t) \/ Predict(t)

----------------------------------------------------------------------------
(* GET /, app.py:182-189 *)

home ==
    /\ got' = [route |-> "/",
               body |-> [status |-> "running",
                         message |-> "Maize Disease Detection API",
                         model_loaded |-> model.loaded]]
    /\ UNCHANGED <<model, DISEASE_CLASSES, pc, upload, calls, sent, probe>>

----------------------------------------------------------------------------
(* GET /diseases, app.py:259-276.  The dict is walked in insertion order,  *)
(* which for this table is the order of its keys.                          *)

\* the k-th key of the table, k from 1
KeyAt(k) ==
    CHOOSE i \in DOMAIN DISEASE_CLASSES :
        Cardinality({j \in DOMAIN DISEASE_CLASSES : j < i}) = k - 1

\* enumerate(..., start=1) in place of the dict's own keys
DiseasesInfoFromOne ==
    [k \in 1..Cardinality(DOMAIN DISEASE_CLASSES) |->
        LET disease_name == DISEASE_CLASSES[KeyAt(k)]
        IN  [id |-> k,
             name |-> disease_name,
             description |-> get_disease_description(disease_name),
             nanoparticle_treatments |-> get_nanoparticle_recommendations(disease_name)]]

diseases_info ==
    [k \in 1..Cardinality(DOMAIN DISEASE_CLASSES) |->
        LET class_idx == KeyAt(k)
            disease_name == DISEASE_CLASSES[class_idx]
        IN  [id |-> class_idx,
             name |-> disease_name,
             description |-> get_disease_description(disease_name),
             nanoparticle_treatments |-> get_nanoparticle_recommendations(disease_name)]]

get_disease_info ==
    /\ got' = [route |-> "/diseases",
               body |-> [diseases |-> diseases_info,
                         total_classes |-> Cardinality(DOMAIN DISEASE_CLASSES)]]
    /\ UNCHANGED <<model, DISEASE_CLASSES, pc, upload, calls, sent, probe>>

----------------------------------------------------------------------------
(* GET /nanoparticles, app.py:278-319 *)

nanoparticle_types ==
    [n \in {"Metal-based", "Oxide-based", "Bimetallic", "Bio-metallic"} |->
        CASE n = "Metal-based" ->
               [description |-> "Nanoparticles made from metals like copper, silver, and gold with strong antimicrobial properties",
                examples |-> <<"Copper NPs", "Silver NPs", "Gold NPs">>,
                mechanism |-> "Release of metal ions that disrupt microbial cell walls and proteins"]
          [] n = "Oxide-based" ->
               [description |-> "Metal oxide nanoparticles with photocatalytic and antimicrobial properties",
                examples |-> <<"TiO2 NPs", "ZnO NPs", "SiO2 NPs">>,
                mechanism |-> "Generation of reactive oxygen species and direct contact antimicrobial action"]
          [] n = "Bimetallic" ->
               [description |-> "Hybrid nanoparticles combining two metals for enhanced efficacy",
                examples |-> <<"Cu-Ag NPs", "Au-Ag NPs", "Pt-Pd NPs">>,
                mechanism |-> "Synergistic effects of multiple metals for broader spectrum activity"]
          [] n = "Bio-metallic" ->
               [description |-> "Biocompatible nanoparticles combining organic and metallic components",
                examples |-> <<"Chitosan-Ag NPs", "Alginate-Cu NPs">>,
                mechanism |-> "Controlled release and enhanced biocompatibility with plant tissues"]]

get_nanoparticle_info ==
    /\ got' = [route |-> "/nanoparticles",
               body |-> [nanoparticle_types |-> nanoparticle_types,
                         application_methods |->
                           <<"Foliar spray", "Root zone application", "Soil amendment",
                             "Seed treatment", "Hydroponic solution">>,
                         safety_considerations |->
                           <<"Use recommended concentrations to avoid phytotoxicity",
                             "Apply during cooler parts of the day",
                             "Monitor plant response after application",
                             "Follow local regulations for nanomaterial use">>]]
    /\ UNCHANGED <<model, DISEASE_CLASSES, pc, upload, calls, sent, probe>>

----------------------------------------------------------------------------
(* The server: any thread takes its next step, or a GET route is served *)

Next ==
    \/ \E t \in Threads : predict_disease(t)
    \/ home
    \/ get_disease_info
    \/ get_nanoparticle_info

Spec == Init /\ [][Next]_vars

ConcurrentSpec == ConcurrentInit /\ [][Next]_vars

----------------------------------------------------------------------------
(* The two metadata lookups as pure functions of any name *)

ClassNames == {ClassTable[i] : i \in DOMAIN ClassTable}

Names ==
    { p \o n \o q : p \in {"", " ", "Maize "},
                    n \in ClassNames \cup {"", "healthy", "HEALTHY", "Blight", "Rust",
                                           "Unknown", "3", "None"},
                    q \in {"", " ", "s"} }

LookupInit ==
    /\ Startup(1..MaxWidth, {"t1"})
    /\ probe \in {[NoProbe EXCEPT !.name = n] : n \in Names}

description_for ==
    /\ "description" \notin probe.done
    /\ probe' = [probe EXCEPT !.description = get_disease_description(probe.name),
                              !.done = @ \cup {"description"}]
    /\ UNCHANGED <<model, DISEASE_CLASSES, pc, upload, calls, sent, got>>

treatments_for ==
    /\ "treatments" \notin probe.done
    /\ probe' = [probe EXCEPT !.nanoparticles = get_nanoparticle_recommendations(probe.name),
                              !.done = @ \cup {"treatments"}]
    /\ UNCHANGED <<model, DISEASE_CLASSES, pc, upload, calls, sent, got>>

LookupNext == description_for \/ treatments_for

LookupSpec == LookupInit /\ [][LookupNext]_vars

----------------------------------------------------------------------------
(* Vocabulary of the properties *)

Answered(t) == sent[t].status # 0

Predicted(t) == sent[t].status = 200

ErrorOnly(t) == DOMAIN sent[t].body = {"error"}

\* the extension after the last dot, compared without case, is allowed
ExtensionAllowed(f) ==
    \E k \in 1..Len(f) :
        /\ f[k] = "."
        /\ \A j \in (k + 1)..Len(f) : f[j] # "."
        /\ lower(SubSeq(f, k + 1, Len(f))) \in ALLOWED_EXTENSIONS

FailsValidation(u) ==
    \/ ~u.has_image
    \/ u.filename = << >>
    \/ ~ExtensionAllowed(u.filename)

\* i holds the greatest score of v and no smaller index does
IsLowestMax(v, i) ==
    /\ i \in DOMAIN v
    /\ \A j \in DOMAIN v : v[j] <= v[i]
    /\ \A j \in DOMAIN v : j < i => v[j] < v[i]

\* m thousandths is the value nearest to x/3000
IsNearest(x, m) == 3 * m - 1 <= x /\ x <= 3 * m + 1

\* the classifier raised, or gave a score to an index the class table lacks
InferenceFailed(r) ==
    \/ r.out.raised
    \/ \E i \in DOMAIN r.out.scores : i \notin DOMAIN ClassTable

----------------------------------------------------------------------------
\* C1: in every 200 response of /predict, disease is the name of the class at
\* the lowest index holding the greatest score, confidence is that score
\* rounded to 3 decimals, and all_predictions holds the same value under
\* that name.
C1_ArgmaxAndConfidence ==
    \A t \in Threads :
        Predicted(t) =>
            \E i \in DOMAIN sent[t].out.scores :
                /\ IsLowestMax(sent[t].out.scores, i)
                /\ sent[t].body.disease = ClassTable[i]
                /\ IsNearest(sent[t].out.scores[i], sent[t].body.confidence)
                /\ sent[t].body.all_predictions[sent[t].body.disease]
                       = sent[t].body.confidence

\* a 200 response for a tie between classes 1 and 2 at 0.79967: class 1 is
\* reported, with confidence 0.8
C1_Witness ==
    \E t \in Threads :
        /\ Predicted(t)
        /\ DOMAIN sent[t].out.scores = 0..3
        /\ sent[t].out.scores[0] < 2399
        /\ sent[t].out.scores[1] = 2399
        /\ sent[t].out.scores[2] = 2399
        /\ sent[t].body.disease = "Northern Corn Leaf Blight"
        /\ sent[t].body.confidence = 800

----------------------------------------------------------------------------
\* C2 as claimed: in every 200 response, severity is 'None' exactly for
\* 'Healthy', and otherwise follows from the response's own confidence field:
\* High from 0.8, Medium from 0.6, else Low.
C2_SeverityFromResponse ==
    \A t \in Threads :
        Predicted(t) =>
            LET b == sent[t].body
            IN  /\ (b.severity = "None") <=> (b.disease = "Healthy")
                /\ b.disease # "Healthy" =>
                     b.severity = IF b.confidence >= 800 THEN "High"
                                  ELSE IF b.confidence >= 600 THEN "Medium"
                                  ELSE "Low"

\* C2 amended: in every 200 response, severity is 'None' exactly for
\* 'Healthy', and otherwise follows from the unrounded top score: High from
\* 0.8, Medium from 0.6, else Low.  Of the rounded confidence field this
\* leaves: High has confidence >= 0.8, Medium has 0.6 <= confidence <= 0.8,
\* Low has confidence <= 0.6.
C2_SeverityFromScore ==
    \A t \in Threads :
        Predicted(t) =>
            LET b == sent[t].body
                top == CHOOSE x \in {sent[t].out.scores[i] : i \in DOMAIN sent[t].out.scores} :
                           \A i \in DOMAIN sent[t].out.scores : sent[t].out.scores[i] <= x
            IN  /\ (b.severity = "None") <=> (b.disease = "Healthy")
                /\ b.disease # "Healthy" =>
                     /\ top >= 2400 => b.severity = "High"
                     /\ (1800 <= top /\ top < 2400) => b.severity = "Medium"
                     /\ top < 1800 => b.severity = "Low"
                /\ b.severity = "High" => b.confidence >= 800
                /\ b.severity = "Medium" => (600 <= b.confidence /\ b.confidence <= 800)
                /\ b.severity = "Low" => b.confidence <= 600

\* a 200 response whose confidence field reads 0.8 and whose severity is Medium
C2_Witness ==
    \E t \in Threads :
        /\ Predicted(t)
        /\ sent[t].body.disease # "Healthy"
        /\ sent[t].body.confidence = 800
        /\ sent[t].body.severity = "Medium"

----------------------------------------------------------------------------
\* C3: a request that fails validation is answered 400 with only an error
\* field, the first failing check (field, filename, extension) names the
\* error, and neither the decoder nor the classifier runs for it; no thread
\* is ever past validation with such an upload.
C3_ValidationRejects ==
    \A t \in Threads :
        /\ pc[t] # "idle" => ~FailsValidation(upload[t])
        /\ (Answered(t) /\ FailsValidation(sent[t].upload)) =>
              /\ sent[t].status = 400
              /\ ErrorOnly(t)
              /\ sent[t].calls = NoCalls
              /\ ~sent[t].out.raised /\ sent[t].out.scores = << >>
              /\ sent[t].body.error[1] =
                   IF ~sent[t].upload.has_image THEN "No image file provided"
                   ELSE IF sent[t].upload.filename = << >> THEN "No file selected"
                   ELSE "Invalid file type. Please upload PNG, JPG, JPEG, or GIF"

\* a.png.bmp was refused for its extension
C3_Witness ==
    \E t \in Threads :
        /\ sent[t].status = 400
        /\ sent[t].upload.filename = <<"a",".","p","n","g",".","b","m","p">>
        /\ sent[t].body.error[1] = "Invalid file type. Please upload PNG, JPG, JPEG, or GIF"

----------------------------------------------------------------------------
\* C4 as claimed: with no model loaded, a request that passes validation and
\* decoding is answered 500 with an error body, never with a prediction.
C4_UnavailableIs500 ==
    \A t \in Threads :
        (~model.loaded /\ Answered(t) /\ ~FailsValidation(sent[t].upload)
            /\ sent[t].upload.bytes = "image") =>
                sent[t].status = 500 /\ ErrorOnly(t)

\* C4 amended: with no model loaded, a request that passes validation and
\* decoding is answered 200 with a prediction made from four mock scores,
\* the top one at least 0.7 and the others at most 0.3; never with an error.
C4_UnavailableUsesMock ==
    \A t \in Threads :
        (~model.loaded /\ Answered(t) /\ ~FailsValidation(sent[t].upload)
            /\ sent[t].upload.bytes = "image") =>
                /\ sent[t].status = 200
                /\ "error" \notin DOMAIN sent[t].body
                /\ sent[t].calls.classify = 1
                /\ DOMAIN sent[t].out.scores = DOMAIN ClassTable
                /\ \E i \in DOMAIN ClassTable :
                      /\ sent[t].out.scores[i] >= 2100
                      /\ sent[t].body.disease = ClassTable[i]
                      /\ \A j \in DOMAIN ClassTable : j # i => sent[t].out.scores[j] <= 900

\* a prediction was returned while no model was loaded
C4_Witness ==
    \E t \in Threads :
        /\ ~model.loaded
        /\ Predicted(t)
        /\ sent[t].upload.bytes = "image"
        /\ sent[t].body.severity = "High"

----------------------------------------------------------------------------
\* C5: a request that passes validation but whose bytes cannot be decoded or
\* preprocessed is answered 400 with only an error field, after one decoder
\* call and no classifier call; no thread reaches the classifier with it.
C5_DecodeFailureIs400 ==
    \A t \in Threads :
        /\ pc[t] = "predict" => upload[t].bytes = "image"
        /\ (Answered(t) /\ ~FailsValidation(sent[t].upload)
              /\ sent[t].upload.bytes # "image") =>
                 /\ sent[t].status = 400
                 /\ ErrorOnly(t)
                 /\ sent[t].body.error[1] = "Error processing image: "
                 /\ sent[t].calls = [decode |-> 1, classify |-> 0]
                 /\ ~sent[t].out.raised /\ sent[t].out.scores = << >>

\* an upload named a.png that is no image was answered 400
C5_Witness ==
    \E t \in Threads :
        /\ sent[t].status = 400
        /\ sent[t].upload.filename = <<"a",".","p","n","g">>
        /\ sent[t].upload.bytes = "garbage"
        /\ sent[t].calls.decode = 1

----------------------------------------------------------------------------
\* C6 as claimed: for a request that passed validation, a failure of the
\* decode or of the inference is answered 500 with only the error text, and
\* the classifier ran at most once.
C6_AnyFailureIs500 ==
    \A t \in Threads :
        (Answered(t) /\ ~FailsValidation(sent[t].upload)
            /\ (sent[t].upload.bytes # "image" \/ InferenceFailed(sent[t]))) =>
                /\ sent[t].status = 500
                /\ ErrorOnly(t)
                /\ sent[t].calls.classify <= 1

\* C6 amended: for a request that passed validation, a failure of the
\* inference (the classifier raising, or a score at an index the class table
\* lacks) is answered 500 with only the error text, after exactly one
\* classifier call; a failure of the decode is answered 400, not 500.  No
\* request has the classifier run more than once.
C6_InferenceFailureIs500 ==
    \A t \in Threads :
        /\ sent[t].calls.classify <= 1
        /\ (Answered(t) /\ ~FailsValidation(sent[t].upload)) =>
              /\ sent[t].upload.bytes # "image" => sent[t].status = 400
              /\ (sent[t].upload.bytes = "image" /\ InferenceFailed(sent[t])) =>
                    /\ sent[t].status = 500
                    /\ ErrorOnly(t)
                    /\ sent[t].body.error[1] = "Error during prediction: "
                    /\ sent[t].calls.classify = 1

\* five scores came back with the greatest at index 4, which has no class
C6_Witness ==
    \E t \in Threads :
        /\ sent[t].status = 500
        /\ ~sent[t].out.raised
        /\ DOMAIN sent[t].out.scores = 0..4
        /\ IsLowestMax(sent[t].out.scores, 4)
        /\ sent[t].body.error = <<"Error during prediction: ", "4">>

----------------------------------------------------------------------------
\* C7: every 200 response holds in all_predictions one score per configured
\* class, the score at index i under the name of class i.
C7_AllClassesScored ==
    \A t \in Threads :
        Predicted(t) =>
            /\ DOMAIN sent[t].body.all_predictions = {ClassTable[i] : i \in DOMAIN ClassTable}
            /\ \A i \in DOMAIN ClassTable :
                  /\ i \in DOMAIN sent[t].out.scores
                  /\ IsNearest(sent[t].out.scores[i],
                               sent[t].body.all_predictions[ClassTable[i]])

----------------------------------------------------------------------------
\* C8: /diseases lists each configured class once, in an entry whose id is
\* the class's index in the classifier output; when /predict reports a class,
\* the entry of that name has the index of the top score as its id and the
\* same description and treatments as the prediction.
C8_DiseasesMatchPredict ==
    got.route = "/diseases" =>
        LET d == got.body.diseases
        IN  /\ Len(d) = Cardinality(DOMAIN ClassTable)
            /\ got.body.total_classes = Len(d)
            /\ \A i \in DOMAIN ClassTable :
                  Cardinality({k \in 1..Len(d) : d[k].id = i}) = 1
            /\ \A k \in 1..Len(d) :
                  /\ d[k].id \in DOMAIN ClassTable
                  /\ d[k].name = ClassTable[d[k].id]
                  /\ \A t \in Threads :
                        (Predicted(t) /\ sent[t].body.disease = d[k].name) =>
                            /\ IsLowestMax(sent[t].out.scores, d[k].id)
                            /\ d[k].description = sent[t].body.description
                            /\ d[k].nanoparticle_treatments = sent[t].body.nanoparticles

\* /diseases was served and a prediction of Gray Leaf Spot was returned
C8_Witness ==
    /\ got.route = "/diseases"
    /\ \E t \in Threads :
          /\ Predicted(t)
          /\ sent[t].body.disease = "Gray Leaf Spot"
          /\ Len(sent[t].body.nanoparticles) = 3

----------------------------------------------------------------------------
\* C9 as claimed: for a name that is no configured class, the description
\* lookup returns "Unknown disease." and the treatments lookup the empty list.
C9_DefaultAsClaimed ==
    probe.name \notin ClassNames =>
        /\ "description" \in probe.done => probe.description = "Unknown disease."
        /\ "treatments" \in probe.done => probe.nanoparticles = << >>

\* C9 amended: for a name that is no configured class, the description lookup
\* returns "Unknown disease detected." and the treatments lookup the empty
\* list; for a configured class they return that class's own description
\* (no two classes share one) and a non-empty treatment list; neither raises.
C9_LookupDefaults ==
    /\ "description" \in probe.done =>
          /\ probe.name \notin ClassNames =>
                probe.description = "Unknown disease detected."
          /\ probe.name \in ClassNames =>
                /\ probe.description = descriptions[probe.name]
                /\ \A n \in ClassNames :
                      descriptions[n] = probe.description => n = probe.name
    /\ "treatments" \in probe.done =>
          /\ probe.name \notin ClassNames => probe.nanoparticles = << >>
          /\ probe.name \in ClassNames =>
                /\ probe.nanoparticles = recommendations[probe.name]
                /\ Len(probe.nanoparticles) > 0

\* both lookups answered for "healthy", which differs from a class name by case
C9_Witness ==
    /\ probe.name = "healthy"
    /\ probe.done = {"description", "treatments"}
    /\ probe.nanoparticles = << >>

----------------------------------------------------------------------------
\* C10: no step of any handler, in any interleaving, changes the classifier
\* loaded at start or the class table; GET / reports that classifier; and two
\* requests with the same upload and the same classifier output get the same
\* response, whichever thread served them and whatever ran in between.
C10_SharedStateFrozen ==
    /\ [][model' = model /\ DISEASE_CLASSES' = DISEASE_CLASSES]_vars
    /\ [](DISEASE_CLASSES = ClassTable)
    /\ [](got.route = "/" => got.body.model_loaded = model.loaded)
    /\ [](\A t1, t2 \in Threads :
            (Answered(t1) /\ Answered(t2)
                /\ sent[t1].upload = sent[t2].upload
                /\ sent[t1].out = sent[t2].out) =>
                    /\ sent[t1].status = sent[t2].status
                    /\ sent[t1].body = sent[t2].body)

\* two threads have answered the same upload with the same prediction, and
\* GET / has been served
C10_Witness ==
    /\ got.route = "/"
    /\ Predicted("t1")
    /\ Predicted("t2")
    /\ sent["t1"].upload = sent["t2"].upload
    /\ sent["t1"].out = sent["t2"].out

====
